---- MODULE Spec2Model ----
(***************************************************************************)
(* Model of the chunked-speech pipeline of mcp-voicevox (src/src/index.ts). *)
(*                                                                         *)
(* The program is a single-threaded Node.js process.  Every action of the  *)
(* model is one macrotask: a tool call (speak, stop_speak) or the          *)
(* completion of an I/O operation (an engine synthesis call, the platform  *)
(* playback command).  The action runs the code from that event up to the  *)
(* next point where every drain is suspended on pending I/O, as the        *)
(* JavaScript event loop does (promise continuations are microtasks and    *)
(* run before the next macrotask).                                         *)
(*                                                                         *)
(* Operators take and return the whole machine state m, a record whose     *)
(* fields are the program's variables; the actions copy it to the TLA+     *)
(* variables.  Chunk indices are 0-based as in the source; the log is      *)
(* history kept for the properties only.                                   *)
(*                                                                         *)
(* The chunking of a text (splitTextIntoSentences and the cutting loop of  *)
(* textToSpeech) is synchronous; SpecChunk follows it statement by         *)
(* statement in the variable chunker, on every text of a bounded length;   *)
(* SpecCut does the same for every value of MAX_CHUNK_LENGTH that matters   *)
(* for the texts it takes.  SpecSynth follows the synthesizeSentence calls  *)
(* of one preload batch through their awaits, with the clock that names    *)
(* their temporary files, in the variable synth.  SpecTurns is the queue   *)
(* specification on Turn-lists of several turns.                           *)
(***************************************************************************)
EXTENDS Integers, Sequences, FiniteSets, TLC

VARIABLES
  isPlayingAudio,  \* the global cancellation flag (index.ts:23)
  initialized,     \* AudioPlayer.initialized
  queue,           \* AudioPlayer.queue: pending Turn-lists
  isProcessing,    \* AudioPlayer.isProcessing
  drains,          \* the suspended processQueue activations (call stacks)
  files,           \* names of the temporary audio files that exist
  nextId,          \* number of Turn-lists enqueued so far (history)
  nCalls,          \* number of synthesizeSentence calls so far
  nStops,          \* number of stop_speak calls so far (history)
  nFails,          \* number of I/O operations that failed so far (history)
  nReturned,       \* number of I/O operations that returned so far (history)
  dropped,         \* ids of the Turn-lists a stop removed from the queue (history)
  log,             \* history of the calls, their ends and the stops
  played,          \* names of the files whose playAudio call has returned (history)
  synth,           \* the synthesizeSentence calls of one preload batch, followed
                   \* step by step, with the clock and the temporary directory
  chunker          \* the locals of one textToSpeech call up to its call of
                   \* processChunksParallel, followed statement by statement

vars == <<isPlayingAudio, initialized, queue, isProcessing, drains, files,
          nextId, nCalls, nStops, nFails, nReturned, dropped, log, played,
          synth, chunker>>

----------------------------------------------------------------------------
(* Bounds of the model                                                      *)

\* the speak calls of the queue specification
MaxEnqueues == 2
\* the stop_speak calls of the queue specification
MaxStops == 1
\* the engine calls and playback commands that fail in the queue specification
MaxFailures == 1
\* the longest Turn (in chunks) of the single-run specification
RunMaxChunks == 6
\* the stop_speak calls of the single-run specification
RunMaxStops == 2
\* the speak calls of the drain-order specification
FifoMaxEnqueues == 3
\* the longest text (in characters) of the chunking specification
MaxTextLen == 6
CutMaxTextLen == 4
\* the largest value of the clock in the synthesis specification
MaxClock == 2

\* process.env.MAX_CHUNK_LENGTH (default "300"), set small here
MAX_CHUNK_LENGTH == 4
\* const MAX_PARALLEL = 3
MAX_PARALLEL == 3

----------------------------------------------------------------------------
(* Text: a string is a sequence of one-character strings                    *)

Min(a, b) == IF a < b THEN a ELSE b

IsSpace(ch) == ch = " "

\* String.prototype.trim
RECURSIVE trimStart(_)
trimStart(s) ==
  IF s = <<>> THEN <<>>
  ELSE IF IsSpace(Head(s)) THEN trimStart(Tail(s)) ELSE s

RECURSIVE trimEnd(_)
trimEnd(s) ==
  IF s = <<>> THEN <<>>
  ELSE IF IsSpace(s[Len(s)]) THEN trimEnd(SubSeq(s, 1, Len(s) - 1)) ELSE s

trim(s) == trimEnd(trimStart(s))

\* the ideographic full stop U+3002 is written "o", the ASCII period "."
KUTEN == "o"

\* text.split(/(?<=[o.])/g): cut after every sentence-terminal character;
\* no cut at the end of the string
\* mutant: the split consumes the sentence-terminal character
RECURSIVE splitAfterTerminal_DropsTerminal(_, _)
splitAfterTerminal_DropsTerminal(s, acc) ==
  IF s = <<>> THEN (IF acc = <<>> THEN <<>> ELSE <<acc>>)
  ELSE IF Head(s) \in {KUTEN, "."}
       THEN <<acc>> \o splitAfterTerminal_DropsTerminal(Tail(s), <<>>)
       ELSE splitAfterTerminal_DropsTerminal(Tail(s), Append(acc, Head(s)))

RECURSIVE splitAfterTerminal(_, _)
splitAfterTerminal(s, acc) ==
  IF s = <<>> THEN (IF acc = <<>> THEN <<>> ELSE <<acc>>)
  ELSE IF Head(s) \in {KUTEN, "."}
       THEN <<Append(acc, Head(s))>> \o splitAfterTerminal(Tail(s), <<>>)
       ELSE splitAfterTerminal(Tail(s), Append(acc, Head(s)))

SelectNonEmpty(ss) == SelectSeq(ss, LAMBDA x : Len(x) > 0)

splitTextIntoSentences(text) ==
  LET pieces    == splitAfterTerminal(text, <<>>)
      sentences == SelectNonEmpty([k \in 1..Len(pieces) |-> trim(pieces[k])])
  IN IF Len(sentences) = 0 /\ Len(trim(text)) > 0
     THEN <<trim(text)>>
     ELSE sentences

\* the backward scan for the full stop from chunkEnd down to
\* j > MAX_CHUNK_LENGTH / 2, for the value limit of MAX_CHUNK_LENGTH
RECURSIVE scanChunkEnd(_, _, _, _)
scanChunkEnd(limit, remainingText, j, chunkEnd) ==
  IF ~(2 * j > limit) THEN chunkEnd
  ELSE IF remainingText[j] = KUTEN THEN j
       ELSE scanChunkEnd(limit, remainingText, j - 1, chunkEnd)

\* while (remainingText.length > 0) { ... }
RECURSIVE cutSentence(_)
cutSentence(remainingText) ==
  IF Len(remainingText) = 0 THEN <<>>
  ELSE LET chunkEnd0 == Min(Len(remainingText), MAX_CHUNK_LENGTH)
           chunkEnd  == scanChunkEnd(MAX_CHUNK_LENGTH, remainingText,
                                     chunkEnd0, chunkEnd0)
       IN <<SubSeq(remainingText, 1, chunkEnd)>>
            \o cutSentence(SubSeq(remainingText, chunkEnd + 1, Len(remainingText)))

\* the allChunks of textToSpeech
RECURSIVE chunksOfSentences(_)
chunksOfSentences(sentences) ==
  IF sentences = <<>> THEN <<>>
  ELSE (IF Len(Head(sentences)) > MAX_CHUNK_LENGTH
        THEN cutSentence(Head(sentences))
        ELSE <<Head(sentences)>>) \o chunksOfSentences(Tail(sentences))

allChunks(text) == chunksOfSentences(splitTextIntoSentences(text))

----------------------------------------------------------------------------
(* The machine state and its records                                        *)

\* the state as one record, for the operators below
Machine ==
  [isPlayingAudio |-> isPlayingAudio, initialized |-> initialized,
   queue |-> queue, isProcessing |-> isProcessing, drains |-> drains,
   files |-> files, nextId |-> nextId, nCalls |-> nCalls, nStops |-> nStops,
   nFails |-> nFails, nReturned |-> nReturned, dropped |-> dropped,
   log |-> log, played |-> played]

\* a promise of synthesizeSentence, and once settled its SynthesisResult:
\* chunk is the index of the chunk submitted, name the temporary file
NoPromise == [chunk |-> -1, name |-> 0, status |-> "none"]

\* tempFile of a result (chunk tells whose audio the file holds)
NoFile == [chunk |-> -1, name |-> 0]
TempFile(r) == [chunk |-> r.chunk, name |-> r.name]

NoDialogues == [id |-> 0, turns |-> <<>>]

\* the locals of textToSpeech(text) when the call is entered; pc is the
\* statement the call is at: "split", "for", "while", or "call" when
\* allChunks is handed to processChunksParallel; limit is the value of
\* MAX_CHUNK_LENGTH the process was started with
NewCall(text) ==
  [pc |-> "split", text |-> text, sentences |-> <<>>, i |-> 0,
   remainingText |-> <<>>, allChunks |-> <<>>, limit |-> MAX_CHUNK_LENGTH]

NoCall == [NewCall(<<>>) EXCEPT !.pc = "idle"]

\* a temporary file name: "voicevox_" or "voicevox_processed_", then the
\* value of Date.now() (the directory and the extension are fixed)
FileName(prefix, t) == [prefix |-> prefix, t |-> t]

NoName == FileName("", 0)

\* the SynthesisResult of a call that has not returned
NoResult == [returned |-> FALSE, success |-> FALSE, tempFile |-> NoName]

\* a synthesizeSentence call that has sent its audio_query request; pc is
\* the await the call is suspended at: "query", "synthesis", "load" (the
\* import of loadFfmpeg), "filter" (ffmpeg runs), then "done", or "threw"
\* when an exception left the call; created is the set of the names of the
\* files the call has written, failedAt the step of the call that failed and
\* opened whether ffmpeg found its input file (history)
NewSynthesis ==
  [pc |-> "query", tempFile |-> NoName, outputFile |-> NoName,
   result |-> NoResult, created |-> {}, failedAt |-> "", opened |-> FALSE]

\* no call is followed step by step
NoSynth == [ENABLE_FFMPEG |-> FALSE, now |-> 0, disk |-> {}, calls |-> <<>>]

\* the locals of one processQueue activation and of the calls it awaits
\* (conversationToSpeech, textToSpeech, processChunksParallel, playAudio)
NewDrain ==
  [pc |-> "start", currentDialogues |-> NoDialogues, i |-> 0, chunks |-> <<>>,
   hasError |-> FALSE, synthPromise |-> NoPromise,
   currentSynthResult |-> NoPromise, preloadPromises |-> <<>>,
   preloadedResults |-> <<>>, it |-> 0, currentIndex |-> 0,
   nextSynthesisPromise |-> NoPromise, playing |-> NoFile]

RemoveAt(seq, k) == SubSeq(seq, 1, k - 1) \o SubSeq(seq, k + 1, Len(seq))

\* history: one event of drain f.  The kinds are
\*   "start" / "ret"      conversationToSpeech is entered / returns ok
\*   "run" / "done"       processChunksParallel is entered with chunk chunks /
\*                        returns success = ok
\*   "synth" / "synthEnd" synthesizeSentence is called for chunk / settles
\*   "play" / "playEnd"   the platform playback command of chunk is started /
\*                        exits
\*   "stop"               stopAudio ran; list is the number of Turn-lists
\*                        enqueued before it
Event(m, f, kind, chunk, ok) ==
  [kind |-> kind, list |-> m.drains[f].currentDialogues.id,
   turn |-> m.drains[f].i, chunk |-> chunk, ok |-> ok]

Record(m, f, kind, chunk, ok) ==
  [m EXCEPT !.log = Append(@, Event(m, f, kind, chunk, ok))]

updatePlayState(m, isPlaying) == [m EXCEPT !.isPlayingAudio = isPlaying]

checkPlayState(m) == m.isPlayingAudio

initialize(m) ==
  IF m.initialized THEN m
  ELSE updatePlayState([m EXCEPT !.initialized = TRUE], FALSE)

\* the call of synthesizeSentence(chunks[c]): the request is sent, the
\* promise is pending
synthesizeSentence(m, f, c) ==
  [Record(m, f, "synth", c, TRUE) EXCEPT !.nCalls = @ + 1]

\* the promise the call above returns
PromiseOf(m, c) == [chunk |-> c, name |-> m.nCalls + 1, status |-> "pending"]

\* mutant: playAudio without the checkPlayState test
playAudio_NoFlagCheck(m, f, tempFile) ==
  LET m1 == IF ~m.initialized THEN initialize(m) ELSE m
  IN [Record(m1, f, "play", tempFile.chunk, TRUE)
        EXCEPT !.drains[f].playing = tempFile]

\* playAudio up to the exec of the platform command; a refused call leaves
\* playing = NoFile (its result is { success: false })
playAudio(m, f, tempFile) ==
  LET m1 == IF ~m.initialized THEN initialize(m) ELSE m
  IN IF ~checkPlayState(m1)
     THEN [m1 EXCEPT !.files = @ \ {tempFile.name},
                     !.played = @ \cup {tempFile.name}]
     ELSE [Record(m1, f, "play", tempFile.chunk, TRUE)
             EXCEPT !.drains[f].playing = tempFile]

Refused(m, f) == m.drains[f].playing = NoFile

----------------------------------------------------------------------------
(* processChunksParallel, textToSpeech, conversationToSpeech, processQueue: *)
(* each operator is the code run from one resumption to the next await on   *)
(* pending I/O of drain f                                                   *)

RECURSIVE processQueue(_, _)
RECURSIVE conversationLoop(_, _)
RECURSIVE forLoop(_, _)

\* mutant: processQueue does not call itself after conversationToSpeech
returnConversation_NoNext(m, f, success) ==
  [Record(m, f, "ret", 0, success) EXCEPT !.drains = RemoveAt(@, f)]

\* conversationToSpeech returns to processQueue, which calls itself
returnConversation(m, f, success) ==
  processQueue(Record(m, f, "ret", 0, success), f)

\* mutant: a failed turn is followed by the next turn
returnRun_NextTurn(m, f, success) ==
  LET m1 == Record(m, f, "done", Len(m.drains[f].chunks), success)
  IN conversationLoop([m1 EXCEPT !.drains[f].i = @ + 1], f)

\* mutant: a failed turn does not clear the flag
returnRun_KeepsFlag(m, f, success) ==
  LET m1 == Record(m, f, "done", Len(m.drains[f].chunks), success)
  IN IF ~success
     THEN returnConversation(m1, f, FALSE)
     ELSE conversationLoop([m1 EXCEPT !.drains[f].i = @ + 1], f)

\* processChunksParallel returns, textToSpeech passes the result on, and
\* conversationToSpeech tests it
returnRun(m, f, success) ==
  LET m1 == Record(m, f, "done", Len(m.drains[f].chunks), success)
  IN IF ~success
     THEN returnConversation(updatePlayState(m1, FALSE), f, FALSE)
     ELSE conversationLoop([m1 EXCEPT !.drains[f].i = @ + 1], f)

\* while (currentIndex + preloadedResults.length < chunks.length)
whileLoop(m, f) ==
  LET d         == m.drains[f]
      nextIndex == d.currentIndex + Len(d.preloadedResults)
  IN IF nextIndex < Len(d.chunks) /\ checkPlayState(m)
     THEN [synthesizeSentence(m, f, nextIndex)
             EXCEPT !.drains[f].pc = "seqSynth",
                    !.drains[f].synthPromise = PromiseOf(m, nextIndex)]
     ELSE returnRun(m, f, ~d.hasError)

\* after await playAudioFile(synthResult.tempFile) in the while loop
afterSeqPlay(m, f, success) ==
  whileLoop([m EXCEPT !.drains[f].hasError = @ \/ ~success,
                      !.drains[f].currentIndex = @ + 1], f)

\* after await synthesizeSentence(chunks[nextIndex]) in the while loop
afterSeqSynth(m, f) ==
  LET d           == m.drains[f]
      synthResult == d.synthPromise
  IN IF ~checkPlayState(m) THEN returnRun(m, f, ~d.hasError)
     ELSE IF synthResult.status # "ok" \/ synthResult.name = 0
     THEN whileLoop([m EXCEPT !.drains[f].hasError = TRUE,
                              !.drains[f].currentIndex = @ + 1], f)
     ELSE LET m1 == playAudio(m, f, TempFile(synthResult))
          IN IF Refused(m1, f) THEN afterSeqPlay(m1, f, FALSE)
             ELSE [m1 EXCEPT !.drains[f].pc = "seqPlay"]

\* after await nextSynthesisPromise in the for loop
afterLoopSynth(m, f) ==
  LET nextSynthResult == m.drains[f].nextSynthesisPromise
      m1 == [m EXCEPT !.drains[f].nextSynthesisPromise = NoPromise]
  IN IF nextSynthResult.status = "ok" /\ nextSynthResult.name # 0
     THEN forLoop([m1 EXCEPT !.drains[f].preloadedResults =
                                Append(@, nextSynthResult)], f)
     ELSE forLoop(m1, f)

\* after await playAudioFile(preloadedResult.tempFile) in the for loop
afterLoopPlay(m, f, success) ==
  LET m1 == [m EXCEPT !.drains[f].hasError = @ \/ ~success,
                      !.drains[f].currentIndex = @ + 1]
      p  == m.drains[f].nextSynthesisPromise
  IN IF p.status = "pending" THEN [m1 EXCEPT !.drains[f].pc = "loopSynth"]
     ELSE afterLoopSynth(m1, f)

\* for (const preloadedResult of preloadedResults): the array iterator reads
\* the length at every step, so results pushed by the body are visited
forLoop(m, f) ==
  LET d == m.drains[f]
  IN IF ~(d.it < Len(d.preloadedResults)) THEN whileLoop(m, f)
     ELSE
       LET preloadedResult == d.preloadedResults[d.it + 1]
           nextIndex       == d.currentIndex + Len(d.preloadedResults)
           m1 == [m EXCEPT !.drains[f].it = @ + 1]
           m2 == IF nextIndex < Len(d.chunks)
                 THEN [synthesizeSentence(m1, f, nextIndex)
                         EXCEPT !.drains[f].nextSynthesisPromise =
                                   PromiseOf(m1, nextIndex)]
                 ELSE [m1 EXCEPT !.drains[f].nextSynthesisPromise = NoPromise]
           m3 == playAudio(m2, f, TempFile(preloadedResult))
       IN IF ~checkPlayState(m) \/ preloadedResult.name = 0
          THEN whileLoop(m, f)
          ELSE IF Refused(m3, f) THEN afterLoopPlay(m3, f, FALSE)
               ELSE [m3 EXCEPT !.drains[f].pc = "loopPlay"]

\* after await playAudioFile(currentSynthResult.tempFile)
afterPlay0(m, f, success) ==
  forLoop([m EXCEPT !.drains[f].hasError = @ \/ ~success,
                    !.drains[f].currentIndex = 1,
                    !.drains[f].it = 0], f)

\* let playResult = await playAudioFile(currentSynthResult.tempFile)
playFirst(m, f) ==
  LET m1 == playAudio(m, f, TempFile(m.drains[f].currentSynthResult))
  IN IF Refused(m1, f) THEN afterPlay0(m1, f, FALSE)
     ELSE [m1 EXCEPT !.drains[f].pc = "play0"]

\* after await Promise.allSettled(preloadPromises)
afterPreload(m, f) ==
  LET results == m.drains[f].preloadPromises
      IsOk(r) == r.status = "ok"
  IN playFirst([m EXCEPT
       !.drains[f].preloadedResults = SelectSeq(results, IsOk),
       !.drains[f].hasError =
          @ \/ (\E k \in 1..Len(results) : ~IsOk(results[k]))], f)

\* mutant: the preload loop runs over all the chunks
RECURSIVE preload_All(_, _, _)
preload_All(m, f, i) ==
  IF ~(i < Len(m.drains[f].chunks)) THEN m
  ELSE preload_All([synthesizeSentence(m, f, i)
                      EXCEPT !.drains[f].preloadPromises =
                                Append(@, PromiseOf(m, i))], f, i + 1)

\* for (let i = 1; i < Math.min(chunks.length, MAX_PARALLEL); i++)
\*   preloadPromises.push(synthesizeSentence(chunks[i], speaker))
RECURSIVE preload(_, _, _)
preload(m, f, i) ==
  IF ~(i < Min(Len(m.drains[f].chunks), MAX_PARALLEL)) THEN m
  ELSE preload([synthesizeSentence(m, f, i)
                  EXCEPT !.drains[f].preloadPromises =
                            Append(@, PromiseOf(m, i))], f, i + 1)

\* after await synthesizeSentence(chunks[0], speaker)
afterSynth0(m, f) ==
  LET currentSynthResult == m.drains[f].synthPromise
      m1 == preload([m EXCEPT !.drains[f].currentSynthResult =
                                 currentSynthResult], f, 1)
  IN IF currentSynthResult.status # "ok" \/ currentSynthResult.name = 0
     THEN returnRun(m, f, FALSE)
     ELSE IF Len(m1.drains[f].preloadPromises) > 0
          THEN [m1 EXCEPT !.drains[f].pc = "preload"]
          ELSE playFirst(m1, f)

processChunksParallel(m, f, chunks) ==
  LET m1 == Record([m EXCEPT
              !.drains[f].chunks = chunks,
              !.drains[f].hasError = FALSE,
              !.drains[f].synthPromise = NoPromise,
              !.drains[f].currentSynthResult = NoPromise,
              !.drains[f].preloadPromises = <<>>,
              !.drains[f].preloadedResults = <<>>,
              !.drains[f].it = 0,
              !.drains[f].currentIndex = 0,
              !.drains[f].nextSynthesisPromise = NoPromise],
              f, "run", Len(chunks), TRUE)
  IN IF Len(chunks) = 0 THEN returnRun(m1, f, TRUE)
     ELSE [synthesizeSentence(m1, f, 0)
             EXCEPT !.drains[f].pc = "synth0",
                    !.drains[f].synthPromise = PromiseOf(m1, 0)]

textToSpeech(m, f, text) == processChunksParallel(m, f, allChunks(text))

\* mutant: the loop over the turns does not test the flag
conversationLoop_NoFlagCheck(m, f) ==
  LET d == m.drains[f]
  IN IF d.i < Len(d.currentDialogues.turns)
     THEN textToSpeech(m, f, d.currentDialogues.turns[d.i + 1])
     ELSE returnConversation(updatePlayState(m, FALSE), f, TRUE)

\* for (let i = 0; i < dialogues.length; i++) of conversationToSpeech
conversationLoop(m, f) ==
  LET d == m.drains[f]
  IN IF d.i < Len(d.currentDialogues.turns)
     THEN IF ~checkPlayState(m) THEN returnConversation(m, f, FALSE)
          ELSE textToSpeech(m, f, d.currentDialogues.turns[d.i + 1])
     ELSE returnConversation(updatePlayState(m, FALSE), f, TRUE)

\* mutant: the loop over the turns starts at the last turn
conversationToSpeech_StartsAtLast(m, f, dialogues) ==
  LET m1 == updatePlayState(m, TRUE)
      m2 == [m1 EXCEPT !.drains[f].currentDialogues = dialogues,
                       !.drains[f].i = Len(dialogues.turns) - 1]
  IN conversationLoop(Record(m2, f, "start", 0, TRUE), f)

conversationToSpeech(m, f, dialogues) ==
  LET m1 == updatePlayState(m, TRUE)
      m2 == [m1 EXCEPT !.drains[f].currentDialogues = dialogues,
                       !.drains[f].i = 0]
  IN conversationLoop(Record(m2, f, "start", 0, TRUE), f)

\* mutant: processQueue takes the last Turn-list (pop instead of shift)
processQueue_TakesLast(m, f) ==
  IF Len(m.queue) = 0
  THEN [m EXCEPT !.isProcessing = FALSE, !.drains = RemoveAt(@, f)]
  ELSE conversationToSpeech(
         [m EXCEPT !.isProcessing = TRUE,
                   !.queue = SubSeq(@, 1, Len(@) - 1)],
         f, m.queue[Len(m.queue)])

processQueue(m, f) ==
  IF Len(m.queue) = 0
  THEN [m EXCEPT !.isProcessing = FALSE, !.drains = RemoveAt(@, f)]
  ELSE conversationToSpeech(
         [m EXCEPT !.isProcessing = TRUE, !.queue = Tail(@)], f, Head(m.queue))

\* mutant: addToQueue starts a drain without testing isProcessing
addToQueue_AlwaysDrains(m, dialogues) ==
  LET m1 == [m EXCEPT !.queue = Append(@, dialogues)]
  IN processQueue([m1 EXCEPT !.drains = Append(@, NewDrain)],
                  Len(m1.drains) + 1)

addToQueue(m, dialogues) ==
  LET m1 == [m EXCEPT !.queue = Append(@, dialogues)]
  IN IF ~m1.isProcessing
     THEN processQueue([m1 EXCEPT !.drains = Append(@, NewDrain)],
                       Len(m1.drains) + 1)
     ELSE m1

\* mutant: stopAudio does not clear the queue
stopAudio_KeepsQueue(m) ==
  LET m1 == updatePlayState(m, FALSE)
  IN [m1 EXCEPT !.dropped = @ \cup {m.queue[k].id : k \in DOMAIN m.queue},
                !.nStops = @ + 1,
                !.log = Append(@, [kind |-> "stop", list |-> m.nextId,
                                   turn |-> 0, chunk |-> 0, ok |-> TRUE])]

\* mutant: stopAudio also resets isProcessing
stopAudio_ResetsProcessing(m) ==
  LET m1 == updatePlayState(m, FALSE)
  IN [m1 EXCEPT !.queue = <<>>,
                !.isProcessing = FALSE,
                !.dropped = @ \cup {m.queue[k].id : k \in DOMAIN m.queue},
                !.nStops = @ + 1,
                !.log = Append(@, [kind |-> "stop", list |-> m.nextId,
                                   turn |-> 0, chunk |-> 0, ok |-> TRUE])]

\* the pkill / taskkill is fire-and-forget: the playback command in flight
\* ends later, with or without an error
stopAudio(m) ==
  LET m1 == updatePlayState(m, FALSE)
  IN [m1 EXCEPT !.queue = <<>>,
                !.dropped = @ \cup {m.queue[k].id : k \in DOMAIN m.queue},
                !.nStops = @ + 1,
                !.log = Append(@, [kind |-> "stop", list |-> m.nextId,
                                   turn |-> 0, chunk |-> 0, ok |-> TRUE])]

----------------------------------------------------------------------------
(* I/O completions                                                          *)

\* the result of a synthesizeSentence call: { success: true, tempFile } with
\* the file written, or { success: false }
Settled(p, ok) ==
  IF ok THEN [p EXCEPT !.status = "ok"]
  ELSE [p EXCEPT !.status = "fail", !.name = 0]

AllSettled(ps) == \A k \in 1..Len(ps) : ps[k].status # "pending"

\* the promise awaited at lines 655 and 715 settles
awaitedSynthesisSettled(m, f, ok) ==
  LET p  == m.drains[f].synthPromise
      m1 == [Record(m, f, "synthEnd", p.chunk, ok)
               EXCEPT !.drains[f].synthPromise = Settled(p, ok),
                      !.files = IF ok THEN @ \cup {p.name} ELSE @]
  IN IF m.drains[f].pc = "synth0" THEN afterSynth0(m1, f)
     ELSE afterSeqSynth(m1, f)

\* one of the preloadPromises settles; allSettled resumes after the last
preloadSynthesisSettled(m, f, k, ok) ==
  LET p  == m.drains[f].preloadPromises[k]
      m1 == [Record(m, f, "synthEnd", p.chunk, ok)
               EXCEPT !.drains[f].preloadPromises[k] = Settled(p, ok),
                      !.files = IF ok THEN @ \cup {p.name} ELSE @]
  IN IF AllSettled(m1.drains[f].preloadPromises) THEN afterPreload(m1, f)
     ELSE m1

\* nextSynthesisPromise settles, during the playback or after it
nextSynthesisSettled(m, f, ok) ==
  LET p  == m.drains[f].nextSynthesisPromise
      m1 == [Record(m, f, "synthEnd", p.chunk, ok)
               EXCEPT !.drains[f].nextSynthesisPromise = Settled(p, ok),
                      !.files = IF ok THEN @ \cup {p.name} ELSE @]
  IN IF m.drains[f].pc = "loopSynth" THEN afterLoopSynth(m1, f)
     ELSE m1

\* the exec callback of playAudio: resolve, unlink and { success: true },
\* or reject and { success: false } from the catch
playbackExited(m, f, ok) ==
  LET d  == m.drains[f]
      m1 == [Record(m, f, "playEnd", d.playing.chunk, ok)
               EXCEPT !.drains[f].playing = NoFile,
                      !.played = @ \cup {d.playing.name},
                      !.files = IF ok THEN @ \ {d.playing.name} ELSE @]
  IN IF d.pc = "play0" THEN afterPlay0(m1, f, ok)
     ELSE IF d.pc = "loopPlay" THEN afterLoopPlay(m1, f, ok)
     ELSE afterSeqPlay(m1, f, ok)

----------------------------------------------------------------------------
(* Inputs                                                                   *)

\* a text of n sentences "a."
RECURSIVE TextOf(_)
TextOf(n) == IF n = 0 THEN <<>> ELSE <<"a", ".">> \o TextOf(n - 1)

\* the Turn-lists of the queue specification: one Turn of one or two
\* sentences, or two Turns of one sentence or of a blank text (no chunk)
QueueLists ==
  {<<TextOf(1)>>, <<TextOf(2)>>}
    \cup {<<TextOf(a), TextOf(b)>> : a \in 0..1, b \in 0..1}

\* the Turn-lists of the drain-order specification
FifoLists == {<<TextOf(1)>>, <<TextOf(1), TextOf(1)>>}

\* the Turn-lists of the turn specification: two or three Turns of one
\* sentence, so that turns are left after any turn but the last
TurnLists == {[t \in 1..n |-> TextOf(1)] : n \in 2..3}

\* the Turn-lists of the single-run specification: one Turn of up to
\* RunMaxChunks sentences
RunLists == {<<TextOf(n)>> : n \in 1..RunMaxChunks}

\* the characters of the texts of the chunking specification: two letters,
\* the space and the two sentence-terminal characters
Alphabet == {"a", "b", " ", ".", KUTEN}

RECURSIVE TextsOfLen(_)
TextsOfLen(n) ==
  IF n = 0 THEN {<<>>}
  ELSE {Append(t, ch) : t \in TextsOfLen(n - 1), ch \in Alphabet}

\* the texts of at most maxLen characters
Texts(maxLen) == UNION {TextsOfLen(n) : n \in 0..maxLen}

----------------------------------------------------------------------------
(* Actions                                                                  *)

Apply(m) ==
  /\ isPlayingAudio' = m.isPlayingAudio
  /\ initialized' = m.initialized
  /\ queue' = m.queue
  /\ isProcessing' = m.isProcessing
  /\ drains' = m.drains
  /\ files' = m.files
  /\ nextId' = m.nextId
  /\ nCalls' = m.nCalls
  /\ nStops' = m.nStops
  /\ nFails' = m.nFails
  /\ nReturned' = m.nReturned
  /\ dropped' = m.dropped
  /\ log' = m.log
  /\ played' = m.played
  /\ chunker' = chunker
  /\ synth' = synth

\* the state after main: audioPlayer constructed and initialized
InitPlayer ==
  /\ isPlayingAudio = FALSE
  /\ initialized = TRUE
  /\ queue = <<>>
  /\ isProcessing = FALSE
  /\ drains = <<>>
  /\ files = {}
  /\ nextId = 0
  /\ nCalls = 0
  /\ nStops = 0
  /\ nFails = 0
  /\ nReturned = 0
  /\ dropped = {}
  /\ log = <<>>
  /\ played = {}

\* no textToSpeech call is followed statement by statement
Init == InitPlayer /\ chunker = NoCall /\ synth = NoSynth

\* the speak tool: audioPlayer.addToQueue(typedDialogues)
Speak(lists, maxEnqueues) ==
  /\ nextId < maxEnqueues
  /\ \E turns \in lists :
       Apply(addToQueue([Machine EXCEPT !.nextId = @ + 1],
                        [id |-> nextId + 1, turns |-> turns]))

\* the stop_speak tool: audioPlayer.stopAudio()
StopSpeak(maxStops) ==
  /\ nStops < maxStops
  /\ Apply(stopAudio(Machine))

\* an I/O operation ends with one of the outcomes (TRUE: it succeeded)
Outcome(m, ok) ==
  [m EXCEPT !.nFails = IF ok THEN @ ELSE @ + 1, !.nReturned = @ + 1]

SynthesisSettles(outcomes) ==
  \E f \in DOMAIN drains, ok \in outcomes :
    \/ /\ drains[f].synthPromise.status = "pending"
       /\ Apply(awaitedSynthesisSettled(Outcome(Machine, ok), f, ok))
    \/ \E k \in DOMAIN drains[f].preloadPromises :
         /\ drains[f].preloadPromises[k].status = "pending"
         /\ Apply(preloadSynthesisSettled(Outcome(Machine, ok), f, k, ok))
    \/ /\ drains[f].nextSynthesisPromise.status = "pending"
       /\ Apply(nextSynthesisSettled(Outcome(Machine, ok), f, ok))

PlaybackExits(outcomes) ==
  \E f \in DOMAIN drains, ok \in outcomes :
    /\ drains[f].playing # NoFile
    /\ Apply(playbackExited(Outcome(Machine, ok), f, ok))

\* the queue specification lets at most MaxFailures operations fail
QueueOutcomes == IF nFails < MaxFailures THEN BOOLEAN ELSE {TRUE}

QueueSpeak == Speak(QueueLists, MaxEnqueues)
QueueStop == StopSpeak(MaxStops)
RunSpeak == Speak(RunLists, 1)
RunStop == StopSpeak(RunMaxStops)

QueueSynthesisSettles == SynthesisSettles(QueueOutcomes)
QueuePlaybackExits == PlaybackExits(QueueOutcomes)
RunSynthesisSettles == SynthesisSettles(BOOLEAN)
RunPlaybackExits == PlaybackExits(BOOLEAN)

Next == QueueSpeak \/ QueueStop \/ QueueSynthesisSettles \/ QueuePlaybackExits

Spec == Init /\ [][Next]_vars

FifoSpeak == Speak(FifoLists, FifoMaxEnqueues)

NextFifo == FifoSpeak \/ QueueStop \/ QueueSynthesisSettles \/ QueuePlaybackExits

SpecFifo == Init /\ [][NextFifo]_vars

TurnSpeak == Speak(TurnLists, MaxEnqueues)

NextTurns == TurnSpeak \/ QueueStop \/ QueueSynthesisSettles \/ QueuePlaybackExits

SpecTurns == Init /\ [][NextTurns]_vars

NextRun == RunSpeak \/ RunStop \/ RunSynthesisSettles \/ RunPlaybackExits

SpecRun == Init /\ [][NextRun]_vars

\* an engine call or a playback command is in flight
PendingIO ==
  \E f \in DOMAIN drains :
    \/ drains[f].synthPromise.status = "pending"
    \/ \E k \in DOMAIN drains[f].preloadPromises :
         drains[f].preloadPromises[k].status = "pending"
    \/ drains[f].nextSynthesisPromise.status = "pending"
    \/ drains[f].playing # NoFile

\* one of the operations in flight returns: the steps of the queue
\* specification that satisfy this are those of QueueSynthesisSettles and
\* QueuePlaybackExits, which are enabled exactly when PendingIO holds
IOReturns == PendingIO /\ nReturned' = nReturned + 1

\* the queue specification when no engine call and no playback command
\* stays in flight forever
SpecLive == Spec /\ WF_nReturned(IOReturns)

\* the chunking specification: textToSpeech is entered with any text of at
\* most MaxTextLen characters and runs to its call of processChunksParallel
playerVars == <<isPlayingAudio, initialized, queue, isProcessing, drains,
                files, nextId, nCalls, nStops, nFails, nReturned, dropped,
                log, played>>

InitChunk ==
  /\ InitPlayer
  /\ chunker \in {NewCall(text) : text \in Texts(MaxTextLen)}
  /\ synth = NoSynth

\* const sentences = splitTextIntoSentences(text)
SplitText ==
  /\ chunker.pc = "split"
  /\ chunker' = [chunker EXCEPT
                   !.pc = "for",
                   !.sentences = splitTextIntoSentences(chunker.text)]
  /\ UNCHANGED <<playerVars, synth>>

\* mutant: every sentence is pushed whole, whatever its length
NextSentence_NoCut ==
  /\ chunker.pc = "for"
  /\ chunker' =
       IF ~(chunker.i < Len(chunker.sentences))
       THEN [chunker EXCEPT !.pc = "call"]
       ELSE [chunker EXCEPT
               !.allChunks = Append(@, chunker.sentences[chunker.i + 1]),
               !.i = @ + 1]
  /\ UNCHANGED <<playerVars, synth>>

\* for (let i = 0; i < sentences.length; i++): the test, and the body up
\* to the while loop
NextSentence ==
  /\ chunker.pc = "for"
  /\ LET sentence == chunker.sentences[chunker.i + 1]
     IN chunker' =
          IF ~(chunker.i < Len(chunker.sentences))
          THEN [chunker EXCEPT !.pc = "call"]
          ELSE IF Len(sentence) > chunker.limit
          THEN [chunker EXCEPT !.pc = "while", !.remainingText = sentence]
          ELSE [chunker EXCEPT !.allChunks = Append(@, sentence),
                               !.i = @ + 1]
  /\ UNCHANGED <<playerVars, synth>>

\* mutant: chunkEnd starts one character short
CutChunk_OffByOne ==
  /\ chunker.pc = "while"
  /\ LET remainingText == chunker.remainingText
         chunkEnd0 == Min(Len(remainingText), chunker.limit) - 1
         chunkEnd  == scanChunkEnd(chunker.limit, remainingText,
                                   chunkEnd0, chunkEnd0)
     IN chunker' =
          IF ~(Len(remainingText) > 0)
          THEN [chunker EXCEPT !.pc = "for", !.i = @ + 1]
          ELSE [chunker EXCEPT
                  !.allChunks = Append(@, SubSeq(remainingText, 1, chunkEnd)),
                  !.remainingText =
                     SubSeq(remainingText, chunkEnd + 1, Len(remainingText))]
  /\ UNCHANGED <<playerVars, synth>>

\* while (remainingText.length > 0): the test and one iteration
CutChunk ==
  /\ chunker.pc = "while"
  /\ LET remainingText == chunker.remainingText
         chunkEnd0 == Min(Len(remainingText), chunker.limit)
         chunkEnd  == scanChunkEnd(chunker.limit, remainingText,
                                   chunkEnd0, chunkEnd0)
     IN chunker' =
          IF ~(Len(remainingText) > 0)
          THEN [chunker EXCEPT !.pc = "for", !.i = @ + 1]
          ELSE [chunker EXCEPT
                  !.allChunks = Append(@, SubSeq(remainingText, 1, chunkEnd)),
                  !.remainingText =
                     SubSeq(remainingText, chunkEnd + 1, Len(remainingText))]
  /\ UNCHANGED <<playerVars, synth>>

NextChunk == SplitText \/ NextSentence \/ CutChunk

SpecChunk == InitChunk /\ [][NextChunk]_vars

\* the values of MAX_CHUNK_LENGTH that cut a text of at most CutMaxTextLen
\* characters differently: every larger value cuts nothing, as the last
\* one does
Limits == 1..(CutMaxTextLen + 1)

\* textToSpeech is called in a process started with any MAX_CHUNK_LENGTH >= 1
InitCut ==
  /\ InitPlayer
  /\ chunker \in {[NewCall(text) EXCEPT !.limit = limit] :
                    text \in Texts(CutMaxTextLen), limit \in Limits}
  /\ synth = NoSynth

\* the statements of textToSpeech run one after the other without an await:
\* the call is never left at a statement it can execute
SpecCut == InitCut /\ [][NextChunk]_vars /\ WF_vars(NextChunk)

----------------------------------------------------------------------------
(* synthesizeSentence and applyAudioFilters, one action per completion of   *)
(* an awaited operation; the operators take and return the record synth     *)

\* the calls the preload loop starts together
PreloadCalls == MAX_PARALLEL - 1

\* the calls of a preload batch have sent their audio_query requests;
\* process.env.ENABLE_FFMPEG is "true" or not
InitSynth ==
  /\ InitPlayer
  /\ chunker = NoCall
  /\ synth \in {[ENABLE_FFMPEG |-> e, now |-> 0, disk |-> {},
                 calls |-> [c \in 1..PreloadCalls |-> NewSynthesis]] :
                  e \in BOOLEAN}

\* return { success: true, tempFile: finalFile } or { success: false }
returnResult(s, c, success, finalFile) ==
  [s EXCEPT !.calls[c].pc = "done",
            !.calls[c].result = [returned |-> TRUE, success |-> success,
                                 tempFile |-> finalFile]]

\* catch (error) { return { success: false } } of synthesizeSentence
catchError(s, c, step) ==
  returnResult([s EXCEPT !.calls[c].failedAt = step], c, FALSE, NoName)

\* applyAudioFilters(inputFile) up to await loadFfmpeg()
applyAudioFilters(s, c) == [s EXCEPT !.calls[c].pc = "load"]

\* after the synthesis response: the name from Date.now(), writeFileSync
\* (which writes the file, or throws with or without a file left behind),
\* and the filter stage when ENABLE_FFMPEG
writeTempFile(s, c, outcome) ==
  LET tempFile == FileName("voicevox_", s.now)
      s1 == [s EXCEPT !.calls[c].tempFile = tempFile]
      s2 == [s1 EXCEPT !.disk = @ \cup {tempFile},
                       !.calls[c].created = @ \cup {tempFile}]
  IN IF outcome = "written"
     THEN IF s.ENABLE_FFMPEG THEN applyAudioFilters(s2, c)
          ELSE returnResult(s2, c, TRUE, tempFile)
     ELSE IF outcome = "partial" THEN catchError(s2, c, "write")
     ELSE catchError(s1, c, "write")

\* after await loadFfmpeg(): the output name from Date.now() and the start
\* of the ffmpeg command, or inputFile returned when there is no ffmpeg
afterLoadFfmpeg(s, c, loaded) ==
  IF ~loaded THEN returnResult(s, c, TRUE, s.calls[c].tempFile)
  ELSE [s EXCEPT !.calls[c].pc = "filter",
                 !.calls[c].outputFile = FileName("voicevox_processed_", s.now),
                 !.calls[c].opened = s.calls[c].tempFile \in s.disk]

\* the 'end' listener: fs.unlinkSync(inputFile); resolve(outputFile).  The
\* unlinkSync of a file that is gone throws inside the listener
onEnd(s, c) ==
  LET call == s.calls[c]
      s1   == [s EXCEPT !.disk = @ \cup {call.outputFile},
                        !.calls[c].created = @ \cup {call.outputFile}]
  IN IF call.tempFile \in s.disk
     THEN returnResult([s1 EXCEPT !.disk = @ \ {call.tempFile}], c, TRUE,
                       call.outputFile)
     ELSE [s1 EXCEPT !.calls[c].pc = "threw"]

\* the 'error' listener: resolve(inputFile); ffmpeg may have left a part of
\* the output file
onError(s, c, partial) ==
  LET call == s.calls[c]
      s1   == [s EXCEPT !.calls[c].failedAt = "filter"]
      s2   == [s1 EXCEPT !.disk = @ \cup {call.outputFile},
                         !.calls[c].created = @ \cup {call.outputFile}]
  IN returnResult(IF partial THEN s2 ELSE s1, c, TRUE, call.tempFile)

SynthStep(s) == synth' = s /\ UNCHANGED <<playerVars, chunker>>

\* Date.now() advances
Tick ==
  /\ synth.now < MaxClock
  /\ SynthStep([synth EXCEPT !.now = @ + 1])

\* the audio_query request returns or fails
QueryReturns ==
  \E c \in DOMAIN synth.calls, ok \in BOOLEAN :
    /\ synth.calls[c].pc = "query"
    /\ SynthStep(IF ok THEN [synth EXCEPT !.calls[c].pc = "synthesis"]
                 ELSE catchError(synth, c, "query"))

\* the synthesis request returns or fails
SynthesisReturns ==
  \E c \in DOMAIN synth.calls,
     outcome \in {"failed", "written", "partial", "none"} :
    /\ synth.calls[c].pc = "synthesis"
    /\ SynthStep(IF outcome = "failed" THEN catchError(synth, c, "synthesis")
                 ELSE writeTempFile(synth, c, outcome))

\* the import of fluent-ffmpeg returns the module or fails
LoadReturns ==
  \E c \in DOMAIN synth.calls, loaded \in BOOLEAN :
    /\ synth.calls[c].pc = "load"
    /\ SynthStep(afterLoadFfmpeg(synth, c, loaded))

\* the ffmpeg command ends, later than it started: with 'end' only if it
\* found its input file
FilterEnds ==
  \E c \in DOMAIN synth.calls, outcome \in {"end", "error", "partial"} :
    /\ synth.calls[c].pc = "filter"
    /\ synth.now > synth.calls[c].outputFile.t
    /\ outcome = "end" => synth.calls[c].opened
    /\ SynthStep(IF outcome = "end" THEN onEnd(synth, c)
                 ELSE onError(synth, c, outcome = "partial"))

NextSynth ==
  Tick \/ QueryReturns \/ SynthesisReturns \/ LoadReturns \/ FilterEnds

SpecSynth == InitSynth /\ [][NextSynth]_vars

----------------------------------------------------------------------------
(* Properties                                                               *)

Events == DOMAIN log

\* events p and q belong to the same run of processChunksParallel
SameRun(p, q) == log[p].list = log[q].list /\ log[p].turn = log[q].turn

\* the run entered at event p has returned at event q
DoneOf(p, q) ==
  /\ log[p].kind = "run" /\ log[q].kind = "done"
  /\ p < q /\ SameRun(p, q)

\* the chunks of the events of kind k of the run entered at event p, in order
RECURSIVE ChunksFrom(_, _, _)
ChunksFrom(p, k, q) ==
  IF q > Len(log) THEN <<>>
  ELSE (IF log[q].kind = k /\ SameRun(p, q) THEN <<log[q].chunk>> ELSE <<>>)
         \o ChunksFrom(p, k, q + 1)

Count(seq, x) == Cardinality({j \in DOMAIN seq : seq[j] = x})

InFlight == {f \in DOMAIN drains : drains[f].playing # NoFile}

\* C1: within one run the playback commands are started in strictly
\* ascending chunk order (no chunk twice, none after a higher one)
C1_PlaybackAscending ==
  \A q \in Events :
    log[q].kind = "play" =>
      \A p \in 1..(q - 1) :
        (log[p].kind = "play" /\ SameRun(p, q)) => log[p].chunk < log[q].chunk

\* C2: a playback command started after a stop belongs to a Turn-list that
\* was enqueued after that stop
C2_NoPlaybackAfterStop ==
  \A p \in Events :
    log[p].kind = "stop" =>
      \A q \in (p + 1)..Len(log) :
        log[q].kind = "play" => log[q].list > log[p].list

\* a stream was stopped before its first playback and has returned without
\* any playback command
C2_Witness ==
  \E p, q \in Events :
    /\ p < q /\ log[p].kind = "stop" /\ log[q].kind = "ret"
    /\ log[q].list <= log[p].list
    /\ \E r \in Events : r < p /\ log[r].kind = "synth"
                           /\ log[r].list = log[q].list
    /\ \A r \in Events : log[r].kind = "play" => log[r].list # log[q].list

\* C3: at most one conversationToSpeech is active, and a stream starts only
\* after the stream started before it has returned
C3_OneStreamAtATime ==
  /\ Len(drains) <= 1
  /\ \A q \in Events :
       log[q].kind = "start" =>
         \A p \in 1..(q - 1) :
           log[p].kind = "start" =>
             \E r \in (p + 1)..(q - 1) :
               log[r].kind = "ret" /\ log[r].list = log[p].list

\* a Turn-list waits in the queue while the stream of another one plays
C3_Witness ==
  /\ Len(queue) >= 1
  /\ \E f \in DOMAIN drains :
       drains[f].playing # NoFile /\ isPlayingAudio

\* C4: the syntheses and playbacks follow the enqueue order of their
\* Turn-lists, without interleaving
C4_DrainInEnqueueOrder ==
  \A q \in Events :
    log[q].kind \in {"synth", "play"} =>
      \A p \in 1..(q - 1) :
        log[p].kind \in {"synth", "play"} => log[p].list <= log[q].list

\* three Turn-lists were drained without a stop
C4_Witness ==
  /\ nStops = 0
  /\ \A id \in 1..3 :
       \E p \in Events : log[p].kind = "play" /\ log[p].list = id

\* C5: a stop leaves the queue empty and the flag false, and no Turn-list it
\* removed from the queue is ever started
C5_StopDropsPending ==
  /\ [][nStops' # nStops => (queue' = <<>> /\ ~isPlayingAudio')]_vars
  /\ [](\A p \in Events : log[p].kind = "start" => log[p].list \notin dropped)

\* a stop removed a pending Turn-list while a stream was active, and the
\* drain has gone idle since
C5_Witness ==
  /\ dropped # {}
  /\ Len(drains) = 0
  /\ ~isProcessing

\* C6: a run during which a stop arrived returns failure
C6_CancelledRunFails ==
  \A q \in Events :
    log[q].kind = "done" =>
      \A p \in 1..(q - 1) :
        DoneOf(p, q) =>
          \A r \in (p + 1)..(q - 1) : log[r].kind = "stop" => ~log[q].ok

\* C7, in the runs no stop arrives at: a run returns success only if none
\* of its syntheses and none of its playbacks failed
C7_FailureReported ==
  \A q \in Events :
    (log[q].kind = "done" /\ nStops = 0) =>
      \A p \in 1..(q - 1) :
        DoneOf(p, q) =>
          \A r \in (p + 1)..(q - 1) :
            (SameRun(p, r) /\ log[r].kind \in {"synthEnd", "playEnd"}
               /\ ~log[r].ok) => ~log[q].ok

\* in the run entered at event p, which returned at event q, the synthesis
\* of chunk k failed at every attempt and nothing else failed
OnlyChunkFails(p, q, k) ==
  /\ \E r \in Events : /\ p < r /\ r < q /\ SameRun(p, r)
                       /\ log[r].kind = "synthEnd" /\ log[r].chunk = k
  /\ \A r \in Events :
       (p < r /\ r < q /\ SameRun(p, r)
          /\ log[r].kind \in {"synthEnd", "playEnd"})
         => (log[r].ok <=> ~(log[r].kind = "synthEnd" /\ log[r].chunk = k))

\* C8: when only the synthesis of one chunk k >= 1 fails and no stop
\* arrives, every other chunk is synthesized once and played once, and the
\* run returns failure
C8_OneBadChunk ==
  \A q \in Events : \A p \in 1..(q - 1) : \A k \in 1..RunMaxChunks :
      (log[q].kind = "done" /\ nStops = 0 /\ DoneOf(p, q)
         /\ OnlyChunkFails(p, q, k))
        => /\ ~log[q].ok
           /\ \A c \in 0..(log[p].chunk - 1) :
                c # k => /\ Count(ChunksFrom(p, "synth", p), c) = 1
                         /\ Count(ChunksFrom(p, "play", p), c) = 1

\* C9, in the runs where no call fails: without a stop, the chunks are
\* submitted to synthesizeSentence once each, in their order
C9_EachChunkSynthesizedOnce ==
  \A q \in Events : \A p \in 1..(q - 1) :
    (log[q].kind = "done" /\ nStops = 0 /\ nFails = 0 /\ DoneOf(p, q))
      => ChunksFrom(p, "synth", p) = [c \in 1..log[p].chunk |-> c - 1]

\* C10: at most one platform playback command is in flight
C10_OnePlaybackInFlight == Cardinality(InFlight) <= 1

\* after a stop the old playback command has not exited yet and a new
\* Turn-list has been enqueued
C10_Witness ==
  /\ nStops >= 1
  /\ Len(queue) >= 1
  /\ Cardinality(InFlight) = 1

\* C11: once a stop has cleared the flag, no synthesizeSentence call is
\* started for a Turn-list that was enqueued before that stop
C11_NoSynthesisAfterStop ==
  \A p \in Events :
    log[p].kind = "stop" =>
      \A q \in (p + 1)..Len(log) :
        log[q].kind = "synth" => log[q].list > log[p].list

\* the concatenation of the strings of a sequence, in order
RECURSIVE Concat(_)
Concat(ss) == IF ss = <<>> THEN <<>> ELSE Head(ss) \o Concat(Tail(ss))

\* the text without the spaces that follow a sentence boundary (the start
\* of the text or a sentence-terminal character)
RECURSIVE dropBoundarySpace(_, _)
dropBoundarySpace(s, atBoundary) ==
  IF s = <<>> THEN <<>>
  ELSE IF IsSpace(Head(s)) /\ atBoundary
       THEN dropBoundarySpace(Tail(s), TRUE)
       ELSE <<Head(s)>> \o dropBoundarySpace(Tail(s), Head(s) \in {KUTEN, "."})

\* the text without the whitespace at its sentence boundaries: after the
\* start, after every sentence-terminal character and before the end
WithoutBoundarySpace(text) == trimEnd(dropBoundarySpace(text, TRUE))

NonSpace(s) == SelectSeq(s, LAMBDA ch : ~IsSpace(ch))

\* the chunks of a finished textToSpeech call are those the pipeline
\* operators compute for the same text
ChunkerAgrees ==
  chunker.pc = "call" => chunker.allChunks = allChunks(chunker.text)

\* C12: the chunks handed to processChunksParallel, concatenated in order,
\* are the text without the whitespace at its sentence boundaries; the
\* characters other than whitespace are all kept, once each and in order;
\* a text that is empty or blank yields no chunk
C12_ChunksReconstructText ==
  chunker.pc = "call" =>
    /\ Concat(chunker.allChunks) = WithoutBoundarySpace(chunker.text)
    /\ NonSpace(Concat(chunker.allChunks)) = NonSpace(chunker.text)
    /\ (NonSpace(chunker.text) = <<>> => chunker.allChunks = <<>>)

\* a text with spaces at a sentence boundary and a sentence longer than
\* MAX_CHUNK_LENGTH has been chunked
C12_Witness ==
  /\ chunker.pc = "call"
  /\ Len(chunker.sentences) >= 1
  /\ Len(chunker.allChunks) > Len(chunker.sentences)
  /\ Len(Concat(chunker.allChunks)) < Len(chunker.text)

\* C13: every chunk of allChunks has at most MAX_CHUNK_LENGTH characters
C13_ChunkLengthBounded ==
  \A k \in DOMAIN chunker.allChunks :
    Len(chunker.allChunks[k]) <= MAX_CHUNK_LENGTH

\* a sentence longer than MAX_CHUNK_LENGTH was cut: its first chunk has
\* exactly MAX_CHUNK_LENGTH characters
C13_Witness ==
  /\ chunker.pc = "call"
  /\ \E k \in DOMAIN chunker.sentences :
       Len(chunker.sentences[k]) > MAX_CHUNK_LENGTH
  /\ \E k \in DOMAIN chunker.allChunks :
       Len(chunker.allChunks[k]) = MAX_CHUNK_LENGTH

\* C14: no file whose playAudio call has returned still exists, whether the
\* call was refused, the command succeeded or the command failed
C14_PlayedFileReleased == played \cap files = {}

\* C15: the runs of one Turn-list are entered in the order of its turns,
\* each after the run of the turn before it has returned, and a chunk is
\* synthesized or played only between the entry and the return of the run
\* of its own turn
C15_TurnsInOrder ==
  /\ \A q \in Events :
       log[q].kind = "run" =>
         /\ \A p \in 1..(q - 1) :
              (log[p].kind = "run" /\ log[p].list = log[q].list)
                => log[p].turn < log[q].turn
         /\ log[q].turn > 0 =>
              \E p \in 1..(q - 1) :
                /\ log[p].kind = "done" /\ log[p].list = log[q].list
                /\ log[p].turn = log[q].turn - 1
  /\ \A q \in Events :
       log[q].kind \in {"synth", "play"} =>
         \E p \in 1..(q - 1) :
           /\ log[p].kind = "run" /\ SameRun(p, q)
           /\ \A r \in (p + 1)..(q - 1) :
                ~(log[r].kind = "done" /\ SameRun(p, r))

\* both turns of a Turn-list have been played
C15_Witness ==
  \E p, q \in Events :
    /\ p < q /\ log[p].kind = "play" /\ log[q].kind = "play"
    /\ log[p].list = log[q].list
    /\ log[p].turn = 0 /\ log[q].turn = 1

\* C16: after a stop, every run entered, every synthesis and every playback
\* started for a Turn-list enqueued before the stop belongs to a turn whose
\* run was entered before the stop: no later turn of the list is begun
C16_StopSkipsLaterTurns ==
  \A p \in Events :
    log[p].kind = "stop" =>
      \A q \in (p + 1)..Len(log) :
        (log[q].kind \in {"run", "synth", "play"} /\ log[q].list <= log[p].list)
          => \E r \in 1..(p - 1) : log[r].kind = "run" /\ SameRun(r, q)

\* a stop arrived during the first turn of a Turn-list, the run of that
\* turn returned success, and conversationToSpeech returned failure at the
\* flag test before the second turn, whose run was never entered
C16_Witness ==
  \E p, q \in Events :
    /\ p < q /\ log[p].kind = "stop" /\ log[q].kind = "ret"
    /\ log[q].list <= log[p].list
    /\ ~log[q].ok /\ log[q].turn = 1
    /\ \A r \in Events :
         log[r].kind = "run" => ~(log[r].list = log[q].list /\ log[r].turn = 1)

\* C17: the flag is true exactly while a conversationToSpeech that started
\* has neither returned nor been stopped, and it is false whenever the
\* drain is idle
C17_FlagOnlyWhileStreaming ==
  /\ isPlayingAudio <=>
       \E p \in Events :
         /\ log[p].kind = "start"
         /\ \A q \in (p + 1)..Len(log) : log[q].kind \notin {"ret", "stop"}
  /\ ~isProcessing => ~isPlayingAudio

\* without any stop, a stream has returned failure after a failed call and
\* the drain is idle
C17_Witness ==
  /\ nStops = 0
  /\ ~isProcessing
  /\ \E p \in Events : log[p].kind = "ret" /\ ~log[p].ok

\* the conversationToSpeech of Turn-list id has started
Started(id) == \E p \in Events : log[p].kind = "start" /\ log[p].list = id

\* C18: when every engine call and every playback command returns, every
\* enqueued Turn-list is eventually started or removed by a stop, a busy
\* drain eventually goes idle with an empty queue, and an enqueue on an
\* idle drain starts the stream of the new Turn-list in the same step
C18_DrainProgress ==
  /\ \A id \in 1..MaxEnqueues :
       (nextId >= id) ~> (Started(id) \/ id \in dropped)
  /\ isProcessing ~> (~isProcessing /\ queue = <<>> /\ drains = <<>>)
  /\ [][(nextId' # nextId /\ ~isProcessing)
          => (isProcessing' \/ Len(log') > Len(log) + 1)
             /\ log'[Len(log) + 1].kind = "start"
             /\ log'[Len(log) + 1].list = nextId']_vars

\* a Turn-list waited in the queue, both Turn-lists were started, and the
\* drain is idle again
C18_Witness ==
  /\ nextId >= 2
  /\ Started(1) /\ Started(2)
  /\ dropped = {}
  /\ ~isProcessing /\ queue = <<>> /\ drains = <<>>
  /\ \E p, q \in Events :
       /\ p < q /\ log[p].kind = "ret" /\ log[q].kind = "start"
       /\ log[p].list = 1 /\ log[q].list = 2

\* when the synthesis of chunk 0 fails, the run returns failure in the same
\* step, and no other chunk of the turn is synthesized and none is played
FirstChunkFailureAborts ==
  \A r \in Events :
    (log[r].kind = "synthEnd" /\ log[r].chunk = 0 /\ ~log[r].ok) =>
      /\ r < Len(log)
      /\ log[r + 1].kind = "done" /\ SameRun(r, r + 1) /\ ~log[r + 1].ok
      /\ \A q \in Events :
           (SameRun(r, q) /\ log[q].kind \in {"synth", "play"})
             => (log[q].kind = "synth" /\ log[q].chunk = 0)

\* when no stop arrives and no playback fails, a run in which the synthesis
\* of a chunk k >= 1 failed has still submitted every chunk after k to
\* synthesizeSentence when it returns
LaterChunkFailureContinues ==
  \A q \in Events :
    (log[q].kind = "done" /\ nStops = 0) =>
      \A p \in 1..(q - 1) :
        (DoneOf(p, q)
           /\ \A e \in (p + 1)..(q - 1) : log[e].kind = "playEnd" => log[e].ok) =>
          \A r \in (p + 1)..(q - 1) :
            (SameRun(p, r) /\ log[r].kind = "synthEnd" /\ ~log[r].ok
               /\ log[r].chunk >= 1) =>
              \A c \in (log[r].chunk + 1)..(log[p].chunk - 1) :
                \E e \in (p + 1)..(q - 1) :
                  SameRun(p, e) /\ log[e].kind = "synth" /\ log[e].chunk = c

\* C19: a failed synthesis of chunk 0 aborts the run at once, before any
\* other synthesis and any playback; a failed synthesis of another chunk
\* does not keep the run from going on to the chunks after it
C19_OnlyFirstChunkAborts ==
  FirstChunkFailureAborts /\ LaterChunkFailureContinues

\* the run entered at event p, which returned at event q, met no stop and
\* no synthesis failure, and the playback command of one chunk failed
PlaybackFailedIn(p, q) ==
  /\ nStops = 0
  /\ \A e \in (p + 1)..(q - 1) :
       (SameRun(p, e) /\ log[e].kind = "synthEnd") => log[e].ok
  /\ Cardinality({e \in (p + 1)..(q - 1) :
         SameRun(p, e) /\ log[e].kind = "playEnd" /\ ~log[e].ok}) = 1

\* a run in which a playback command failed returns failure
PlaybackFailureReported ==
  \A q \in Events :
    log[q].kind = "done" =>
      \A p \in 1..(q - 1) :
        (DoneOf(p, q) /\ PlaybackFailedIn(p, q)) => ~log[q].ok

\* C20: when the playback command of a chunk fails, with no stop and no
\* synthesis failure, every chunk after it is still synthesized and
\* played, and the run returns failure
C20_PlaybackFailureContinues ==
  \A q \in Events :
    log[q].kind = "done" =>
      \A p \in 1..(q - 1) :
        (DoneOf(p, q) /\ PlaybackFailedIn(p, q)) =>
          /\ ~log[q].ok
          /\ \A e \in (p + 1)..(q - 1) :
               (SameRun(p, e) /\ log[e].kind = "playEnd" /\ ~log[e].ok) =>
                 \A c \in (log[e].chunk + 1)..(log[p].chunk - 1) :
                   /\ Count(ChunksFrom(p, "synth", p), c) >= 1
                   /\ Count(ChunksFrom(p, "play", e), c) >= 1

\* the synthesizeSentence calls of drain f that have not returned
PendingSyntheses(f) ==
  (IF drains[f].synthPromise.status = "pending" THEN 1 ELSE 0)
    + Cardinality({k \in DOMAIN drains[f].preloadPromises :
                     drains[f].preloadPromises[k].status = "pending"})
    + (IF drains[f].nextSynthesisPromise.status = "pending" THEN 1 ELSE 0)

RECURSIVE SumOver(_, _)
SumOver(F(_), n) == IF n = 0 THEN 0 ELSE F(n) + SumOver(F, n - 1)

SynthesesInFlight == SumOver(PendingSyntheses, Len(drains))

\* C21: at most 2 synthesizeSentence calls are in flight, and at most 1
\* while a playback command is in flight
C21_SynthesisOverlapBounded ==
  /\ SynthesesInFlight <= 2
  /\ InFlight # {} => SynthesesInFlight <= 1

\* after a preload of two chunks, the look-ahead synthesis is in flight
\* during a playback
C21_Witness ==
  \E f \in DOMAIN drains :
    /\ Len(drains[f].preloadPromises) = 2
    /\ drains[f].playing # NoFile
    /\ drains[f].nextSynthesisPromise.status = "pending"

\* the files synthesized whose playAudio call has not returned: the units
\* buffered for playback and the one being played
Unplayed == files \ played

\* C22: the synthesized units not yet played and the syntheses in flight
\* are together at most MAX_PARALLEL
C22_WindowBounded == Cardinality(Unplayed) + SynthesesInFlight <= MAX_PARALLEL

\* in the steady-state loop the window is full: a look-ahead synthesis is
\* in flight while one unit is played and another is buffered
C22_Witness ==
  /\ Cardinality(Unplayed) + SynthesesInFlight = MAX_PARALLEL
  /\ \E f \in DOMAIN drains :
       /\ drains[f].pc = "loopPlay"
       /\ drains[f].currentIndex >= 2
       /\ drains[f].nextSynthesisPromise.status = "pending"

\* the calls of the batch that have returned a successful result
Succeeded == {c \in DOMAIN synth.calls :
                synth.calls[c].result.returned /\ synth.calls[c].result.success}

\* C23: no two successful synthesizeSentence calls whose results have not
\* been released hold the same temporary file
C23_DistinctTempFiles ==
  \A c, d \in Succeeded :
    c # d => synth.calls[c].result.tempFile # synth.calls[d].result.tempFile

\* C24: a call in which a step failed (the query, the synthesis, the file
\* write or the filter stage) has returned a failure result and none of the
\* files it wrote exists
C24_FailureLeavesNothing ==
  \A c \in DOMAIN synth.calls :
    synth.calls[c].failedAt # "" =>
      /\ synth.calls[c].result.returned
      /\ ~synth.calls[c].result.success
      /\ synth.calls[c].created \cap synth.disk = {}

\* call c leaves its filter stage in this step, ffmpeg having ended with
\* 'end' (ok) or with 'error'
LeavesFilter(c, ok) ==
  /\ synth.calls[c].pc = "filter"
  /\ synth'.calls[c].pc # "filter"
  /\ ok <=> (synth'.calls[c].failedAt # "filter")

\* C25: when the filter stage fails the call returns success with its
\* unfiltered file, which exists; when the filter stage succeeds the call
\* returns success with the filtered file, which exists, and the unfiltered
\* file is gone
C25_FilterFallback ==
  [][\A c \in DOMAIN synth.calls :
       /\ LeavesFilter(c, FALSE) =>
            /\ synth'.calls[c].result.returned
            /\ synth'.calls[c].result.success
            /\ synth'.calls[c].result.tempFile = synth.calls[c].tempFile
            /\ synth.calls[c].tempFile \in synth'.disk
       /\ LeavesFilter(c, TRUE) =>
            /\ synth'.calls[c].result.returned
            /\ synth'.calls[c].result.success
            /\ synth'.calls[c].result.tempFile = synth.calls[c].outputFile
            /\ synth.calls[c].outputFile \in synth'.disk
            /\ synth.calls[c].tempFile \notin synth'.disk]_vars

\* C26, in the runs where no call fails and no stop arrives: when a run
\* returns success, each of its chunks 0..n-1 has been handed to playAudio
\* exactly once
C26_SuccessPlaysEveryChunk ==
  \A q \in Events :
    (log[q].kind = "done" /\ log[q].ok /\ nStops = 0 /\ nFails = 0) =>
      \A p \in 1..(q - 1) :
        DoneOf(p, q) =>
          \A c \in 0..(log[p].chunk - 1) :
            Count(ChunksFrom(p, "play", p), c) = 1

\* C27: a stop leaves isProcessing and the drain as they are; a Turn-list
\* enqueued while a drain is active is appended to the queue and starts no
\* second drain; a Turn-list is dropped only by a stop that came after its
\* enqueue; and a Turn-list enqueued after a stop is started only after
\* every stream started before that stop has returned
C27_StopKeepsDrain ==
  /\ [][/\ nStops' # nStops =>
             /\ isProcessing' = isProcessing
             /\ Len(drains') = Len(drains)
        /\ (nextId' # nextId /\ isProcessing) =>
             /\ Len(queue') = Len(queue) + 1
             /\ SubSeq(queue', 1, Len(queue)) = queue
             /\ queue'[Len(queue')].id = nextId'
             /\ Len(drains') = Len(drains)
             /\ isPlayingAudio' = isPlayingAudio]_vars
  /\ [](\A p \in Events :
          log[p].kind = "stop" =>
            /\ \A id \in (log[p].list + 1)..nextId :
                 id \in dropped =>
                   \E s \in (p + 1)..Len(log) :
                     log[s].kind = "stop" /\ log[s].list >= id
            /\ \A q \in (p + 1)..Len(log) :
                 (log[q].kind = "start" /\ log[q].list > log[p].list) =>
                   \A r \in 1..(p - 1) :
                     log[r].kind = "start" =>
                       \E e \in (r + 1)..(q - 1) :
                         log[e].kind = "ret" /\ log[e].list = log[r].list)

\* a Turn-list enqueued after a stop waits in the queue while the cancelled
\* stream has not returned yet
C27_Witness ==
  /\ Len(drains) = 1
  /\ isProcessing
  /\ ~isPlayingAudio
  /\ Len(queue) >= 1
  /\ \E p \in Events : log[p].kind = "stop" /\ queue[1].id > log[p].list

\* the events this step appends to the log
NewEvents == (Len(log) + 1)..Len(log')

\* C28: in the step in which a run returns failure, conversationToSpeech
\* returns failure without another turn; with an empty queue the flag is
\* left false and the drain ends, otherwise the Turn-list at the head of the
\* queue is started and the rest of the queue is kept; no later run belongs
\* to the Turn-list whose run failed
C28_FailedTurnEndsStream ==
  /\ [][\A q \in NewEvents :
          (log'[q].kind = "done" /\ ~log'[q].ok) =>
            /\ q + 1 <= Len(log')
            /\ log'[q + 1].kind = "ret"
            /\ log'[q + 1].list = log'[q].list
            /\ ~log'[q + 1].ok
            /\ IF queue = <<>>
               THEN /\ Len(log') = q + 1
                    /\ ~isPlayingAudio'
                    /\ ~isProcessing'
                    /\ queue' = <<>>
               ELSE /\ q + 2 <= Len(log')
                    /\ log'[q + 2].kind = "start"
                    /\ log'[q + 2].list = Head(queue).id
                    /\ \A k \in DOMAIN queue :
                         \/ \E j \in DOMAIN queue' : queue'[j] = queue[k]
                         \/ \E e \in NewEvents :
                              /\ log'[e].kind = "start"
                              /\ log'[e].list = queue[k].id]_vars
  /\ [](\A q \in Events :
          (log[q].kind = "done" /\ ~log[q].ok) =>
            \A r \in (q + 1)..Len(log) :
              log[r].kind = "run" => log[r].list # log[q].list)

\* the first turn of a Turn-list, which has two turns or more, failed on a
\* playback failure with no stop, and the Turn-list that waited in the queue
\* has been started
C28_Witness ==
  /\ nStops = 0
  /\ \E q \in Events :
       /\ log[q].kind = "done" /\ ~log[q].ok /\ log[q].turn = 0
       /\ \E e \in 1..(q - 1) :
            log[e].kind = "playEnd" /\ ~log[e].ok /\ SameRun(e, q)
       /\ q + 2 <= Len(log)
       /\ log[q + 2].kind = "start"
       /\ log[q + 2].list > log[q].list

\* C29: for every text and every MAX_CHUNK_LENGTH >= 1 the chunking reaches
\* its call of processChunksParallel, and no chunk is ever empty
C29_CuttingTerminates ==
  /\ <>(chunker.pc = "call")
  /\ [](\A k \in DOMAIN chunker.allChunks : Len(chunker.allChunks[k]) > 0)

\* with MAX_CHUNK_LENGTH = 1 a sentence of three characters or more has been
\* cut into its characters and the call has reached processChunksParallel
C29_Witness ==
  /\ chunker.pc = "call"
  /\ chunker.limit = 1
  /\ \E k \in DOMAIN chunker.sentences : Len(chunker.sentences[k]) >= 3
  /\ Len(chunker.allChunks) >= 3

\* C30, in the runs where no call fails: once the run has returned, no file
\* written by its synthesizeSentence calls exists
C30_NoFileLeftAfterRun ==
  (nFails = 0 /\ \E q \in Events : log[q].kind = "done") => files = {}

====
